---- MODULE Spec2Model ----
(***************************************************************************)
(* Model of the TF-Luna I2C driver (src/src/TFLI2C.cpp).                   *)
(*                                                                         *)
(* The driver object holds tfStatus, regReply and dataArray.  Every public *)
(* method is one blocking call; it is modelled as one action that runs the *)
(* whole method, including every readReg/writeReg it makes.  The TwoWire   *)
(* bus is the external collaborator: each readReg/writeReg draws the bus's *)
(* answer (endTransmission status, byte available or not) from a script,   *)
(* and the calls the driver makes on the bus are recorded in `wire`.       *)
(* Integers are kept at their C width: uint8_t bytes, int16_t fields.      *)
(* The two-argument getData only forwards to the four-argument one and is  *)
(* not a separate action.  The object is taken as zero-initialised (a      *)
(* global instance), so the status slot starts as READY.                   *)
(***************************************************************************)
EXTENDS Integers, Sequences, FiniteSets, TLC

(* ---------------- status codes (names as printed by printStatus) ------- *)
TFL_READY == "READY"
TFL_I2CREAD == "I2C-READ"
TFL_I2CWRITE == "I2C-WRITE"
TFL_WEAK == "Signal weak"
TFL_STRONG == "Signal strong"

(* ---------------- register map ------------------------------------------ *)
TFL_DIST_LO == 0
TFL_TEMP_HI == 5
TFL_TICK_LO == 6
TFL_TICK_HI == 7
TFL_VER_REV == 10
TFL_PROD_CODE == 16
TFL_SAVE_SETTINGS == 32
TFL_SOFT_RESET == 33
TFL_SET_I2C_ADDR == 34
TFL_SET_TRIG_MODE == 35
TFL_TRIGGER == 36
TFL_DISABLE == 37
TFL_FPS_LO == 38
TFL_FPS_HI == 39
TFL_HARD_RESET == 41
TFL_DEF_ADR == 16
TFL_DEF_FPS == 100

(* ---------------- bounds and input sets -------------------------------- *)
NumDevices == 2
Addrs == TFL_DEF_ADR .. (TFL_DEF_ADR + NumDevices - 1)

\* 16-bit register contents the sensor may present: <<distance, flux, temperature>>
Fluxes == {0, 99, 100, 32767, 32768, 65534, 65535}
Samples == {<<4660, f, 2600>> : f \in Fluxes} \cup
           {<<32769, 99, 65436>>, <<32769, 100, 65436>>}
FewSamples == {<<4660, 99, 2600>>, <<4660, 100, 2600>>}
Ticks == {43981}
FrameRates == {1, 100, 1000, 65535}
FewFrameRates == {TFL_DEF_FPS}
NewAddrs == {8, 119}
\* what the caller's variables hold before a call
PreMeasure == {<<-1, 7, 300>>}
PreWord == {42405}

\* the bus's answer to one readReg/writeReg: status of endTransmission and
\* whether a byte is available after requestFrom
Ok == [end |-> 0, avail |-> TRUE]
Nack == [end |-> 2, avail |-> TRUE]
NoByte == [end |-> 0, avail |-> FALSE]
Responses == {Ok, Nack, NoByte}
\* scripts for n consecutive register accesses: every access answered Ok, or
\* a fault at access p with Ok at every other access
BusScripts(n) ==
  {[k \in 1..n |-> Ok]} \cup
  {[k \in 1..n |-> IF k = p THEN f ELSE Ok] : p \in 1..n, f \in {Nack, NoByte}}

(* ---------------- integer helpers -------------------------------------- *)
Lo(v) == v % 256
Hi(v) == (v \div 256) % 256
\* conversion of an int to int16_t.  byte + (byte << 8) is at most 0xFFFF; with
\* a 16-bit int the shift wraps to the same bit pattern, so every build gives
\* the value modulo 2^16 read as two's complement
ToInt16(v) == LET m == v % 65536 IN IF m >= 32768 THEN m - 65536 ELSE m
\* p[0] = b and p[1] = b on a uint16_t seen as two bytes (little-endian host)
SetByte0(w, b) == Hi(w) * 256 + b
SetByte1(w, b) == b * 256 + Lo(w)

(* ---------------- the device seen through the bus ----------------------- *)
\* ROM contents of the firmware-version and production-code registers
RomByte(reg) == 48 + (reg % 2)

\* Register contents of the device at address addr during one call: the
\* sample and tick it presents, its ROM, and the frame-rate registers it stores
DevMem(fps, smp, tick) ==
  [reg \in 0..41 |->
     IF reg = 0 THEN Lo(smp[1]) ELSE IF reg = 1 THEN Hi(smp[1])
     ELSE IF reg = 2 THEN Lo(smp[2]) ELSE IF reg = 3 THEN Hi(smp[2])
     ELSE IF reg = 4 THEN Lo(smp[3]) ELSE IF reg = 5 THEN Hi(smp[3])
     ELSE IF reg = TFL_TICK_LO THEN Lo(tick)
     ELSE IF reg = TFL_TICK_HI THEN Hi(tick)
     ELSE IF reg = TFL_FPS_LO THEN fps[1]
     ELSE IF reg = TFL_FPS_HI THEN fps[2]
     ELSE RomByte(reg)]

NoSample == <<0, 0, 0>>

(* ---------------- state ------------------------------------------------- *)
VARIABLES
  tfStatus,   \* the status slot
  regReply,   \* byte returned by the last successful readReg
  dataArray,  \* six raw bytes of the last getData (index reg + 1)
  dev,        \* per device address: <<FPS_LO, FPS_HI>> as stored by the device
  wire,       \* calls made on the TwoWire bus by the most recent operation
  call,       \* the most recent operation: name, address, argument,
              \* caller's variables before (pre) and after (out), result
  setBefore   \* history: <<x>> when the most recent operation is a
              \* Get_Frame_Rate that directly follows a successful
              \* Set_Frame_Rate(x) on the same device, else << >>

vars == <<tfStatus, regReply, dataArray, dev, wire, call, setBefore>>

Ev(e, a, n) == [ev |-> e, arg |-> a, n |-> n]

\* running state of one method call: the object fields, the bus log, the
\* device's stored registers, the number of register accesses made so far
\* and the result of the last readReg/writeReg
Enter(st) ==
  [tfStatus |-> st, regReply |-> regReply, dataArray |-> dataArray,
   wire |-> <<>>, dev |-> dev, n |-> 0, ok |-> TRUE]

\* readReg with a fault: the status of endTransmission is not tested
readReg_NoEndCheck(s, nmbr, addr, mem, script) ==
  LET b == script[s.n + 1]
      w2 == s.wire \o <<Ev("begin", addr, 0), Ev("write", nmbr, 0),
                         Ev("end", b.end, 0), Ev("request", addr, 1),
                         Ev("peek", IF b.avail THEN mem[nmbr] ELSE -1, 0)>>
  IN IF ~b.avail
       THEN [s EXCEPT !.wire = w2, !.n = s.n + 1,
                      !.tfStatus = TFL_I2CREAD, !.ok = FALSE]
     ELSE [s EXCEPT !.wire = w2 \o <<Ev("read", mem[nmbr], 0)>>, !.n = s.n + 1,
                    !.regReply = mem[nmbr], !.ok = TRUE]

(* ---------------- readReg / writeReg ------------------------------------ *)
readReg(s, nmbr, addr, mem, script) ==
  LET b == script[s.n + 1]
      w1 == s.wire \o <<Ev("begin", addr, 0), Ev("write", nmbr, 0),
                         Ev("end", b.end, 0)>>
      w2 == w1 \o <<Ev("request", addr, 1),
                    Ev("peek", IF b.avail THEN mem[nmbr] ELSE -1, 0)>>
  IN IF b.end # 0
       THEN [s EXCEPT !.wire = w1, !.n = s.n + 1,
                      !.tfStatus = TFL_I2CWRITE, !.ok = FALSE]
     ELSE IF ~b.avail
       THEN [s EXCEPT !.wire = w2, !.n = s.n + 1,
                      !.tfStatus = TFL_I2CREAD, !.ok = FALSE]
     ELSE [s EXCEPT !.wire = w2 \o <<Ev("read", mem[nmbr], 0)>>, !.n = s.n + 1,
                    !.regReply = mem[nmbr], !.ok = TRUE]

\* the device keeps what is written to its frame-rate registers
DevStore(d, nmbr, addr, data) ==
  IF nmbr = TFL_FPS_LO THEN [d EXCEPT ![addr][1] = data]
  ELSE IF nmbr = TFL_FPS_HI THEN [d EXCEPT ![addr][2] = data]
  ELSE d

writeReg(s, nmbr, addr, data, script) ==
  LET b == script[s.n + 1]
      w1 == s.wire \o <<Ev("begin", addr, 0), Ev("write", nmbr, 0),
                         Ev("write", data, 0), Ev("end", b.end, 0)>>
  IN IF b.end # 0
       THEN [s EXCEPT !.wire = w1, !.n = s.n + 1,
                      !.tfStatus = TFL_I2CWRITE, !.ok = FALSE]
     ELSE [s EXCEPT !.wire = w1, !.n = s.n + 1, !.ok = TRUE,
                    !.dev = DevStore(s.dev, nmbr, addr, data)]

(* ---------------- getData ----------------------------------------------- *)
RECURSIVE getDataLoop(_, _, _, _, _)
\* for (reg = TFL_DIST_LO; reg <= TFL_TEMP_HI; reg++)
getDataLoop(s, reg, addr, mem, script) ==
  IF reg > TFL_TEMP_HI THEN s
  ELSE LET r == readReg(s, reg, addr, mem, script)
       IN IF ~r.ok THEN r
          ELSE getDataLoop([r EXCEPT !.dataArray[reg + 1] = r.regReply],
                           reg + 1, addr, mem, script)

\* Word16 with a fault: the bytes taken in big-endian order
Word16_BigEndian(lo, hi) == hi + lo * 256

\* dataArray[ i] + ( dataArray[ i + 1] << 8), before the conversion to int16_t
Word16(lo, hi) == lo + hi * 256

\* IsWeak with a fault: threshold off by one
IsWeak_OffByOne(flux) == flux < ToInt16(99)

\* flux < (int16_t)100
IsWeak(flux) == flux < ToInt16(100)
\* flux == (int16_t)0xFFFF
IsStrong(flux) == flux = ToInt16(65535)

\* getData with a fault: the three fields are assembled before the result of the
\* reads is looked at
getData_Partial(pre, addr, mem, script) ==
  LET s == getDataLoop(Enter(TFL_READY), TFL_DIST_LO, addr, mem, script)
      dist == ToInt16(Word16(s.dataArray[1], s.dataArray[2]))
      flux == ToInt16(Word16(s.dataArray[3], s.dataArray[4]))
      temp == ToInt16(Word16(s.dataArray[5], s.dataArray[6]))
      out == <<dist, flux, temp>>
  IN IF ~s.ok THEN [s |-> s, ret |-> FALSE, out |-> out]
     ELSE IF IsWeak(flux)
       THEN [s |-> [s EXCEPT !.tfStatus = TFL_WEAK], ret |-> FALSE, out |-> out]
     ELSE IF IsStrong(flux)
       THEN [s |-> [s EXCEPT !.tfStatus = TFL_STRONG], ret |-> FALSE, out |-> out]
     ELSE [s |-> [s EXCEPT !.tfStatus = TFL_READY], ret |-> TRUE, out |-> out]

\* pre = <<dist, flux, temp>> of the caller before the call
getData(pre, addr, mem, script) ==
  LET s == getDataLoop(Enter(TFL_READY), TFL_DIST_LO, addr, mem, script)
      dist == ToInt16(Word16(s.dataArray[1], s.dataArray[2]))
      flux == ToInt16(Word16(s.dataArray[3], s.dataArray[4]))
      temp == ToInt16(Word16(s.dataArray[5], s.dataArray[6]))
      out == <<dist, flux, temp>>
  IN IF ~s.ok THEN [s |-> s, ret |-> FALSE, out |-> pre]
     ELSE IF IsWeak(flux)
       THEN [s |-> [s EXCEPT !.tfStatus = TFL_WEAK], ret |-> FALSE, out |-> out]
     ELSE IF IsStrong(flux)
       THEN [s |-> [s EXCEPT !.tfStatus = TFL_STRONG], ret |-> FALSE, out |-> out]
     ELSE [s |-> [s EXCEPT !.tfStatus = TFL_READY], ret |-> TRUE, out |-> out]

(* ---------------- explicit commands ------------------------------------- *)
\* two consecutive registers read into the two bytes of a uint16_t
\* (Get_Time and Get_Frame_Rate); pre = <<word>>
ReadWord(regLo, regHi, pre, adr, mem, script) ==
  LET r1 == readReg(Enter(tfStatus), regLo, adr, mem, script)
      w1 == SetByte0(pre[1], r1.regReply)
      r2 == readReg(r1, regHi, adr, mem, script)
      w2 == SetByte1(w1, r2.regReply)
  IN IF ~r1.ok THEN [s |-> r1, ret |-> FALSE, out |-> pre]
     ELSE IF ~r2.ok THEN [s |-> r2, ret |-> FALSE, out |-> <<w1>>]
     ELSE [s |-> r2, ret |-> TRUE, out |-> <<w2>>]

Get_Time(pre, adr, mem, script) ==
  ReadWord(TFL_TICK_LO, TFL_TICK_HI, pre, adr, mem, script)

Get_Frame_Rate(pre, adr, mem, script) ==
  ReadWord(TFL_FPS_LO, TFL_FPS_HI, pre, adr, mem, script)

RECURSIVE ReadBuf_NoAbort(_, _, _, _, _, _, _, _)
\* ReadBuf with a fault: a failed readReg does not end the loop
ReadBuf_NoAbort(s, buf, i, len, base, adr, mem, script) ==
  IF ~(i < len) THEN [s |-> s, ret |-> TRUE, out |-> buf]
  ELSE LET r == readReg(s, base + i, adr, mem, script)
       IN ReadBuf_NoAbort(r, IF r.ok THEN [buf EXCEPT ![i + 1] = r.regReply]
                                     ELSE buf,
                          i + 1, len, base, adr, mem, script)

RECURSIVE ReadBuf(_, _, _, _, _, _, _, _)
\* for (i = 0; i < len; ++i) { if (!readReg(base + i, adr)) return false;
\*                             else p[i] = regReply; }
ReadBuf(s, buf, i, len, base, adr, mem, script) ==
  IF ~(i < len) THEN [s |-> s, ret |-> TRUE, out |-> buf]
  ELSE LET r == readReg(s, base + i, adr, mem, script)
       IN IF ~r.ok THEN [s |-> r, ret |-> FALSE, out |-> buf]
          ELSE ReadBuf(r, [buf EXCEPT ![i + 1] = r.regReply],
                       i + 1, len, base, adr, mem, script)

Get_Prod_Code(pre, adr, mem, script) ==
  ReadBuf(Enter(tfStatus), pre, 0, 14, TFL_PROD_CODE, adr, mem, script)

Get_Firmware_Version(pre, adr, mem, script) ==
  ReadBuf(Enter(tfStatus), pre, 0, 3, TFL_VER_REV, adr, mem, script)

\* return( writeReg( reg, adr, data))
WriteCmd(reg, adr, data, script) ==
  LET r == writeReg(Enter(tfStatus), reg, adr, data, script)
  IN [s |-> r, ret |-> r.ok, out |-> <<>>]

\* Set_Frame_Rate with a fault: the second writeReg is made whatever the first
\* returned
Set_Frame_Rate_BothWrites(frm, adr, script) ==
  LET r1 == writeReg(Enter(tfStatus), TFL_FPS_LO, adr, Lo(frm), script)
      r2 == writeReg(r1, TFL_FPS_HI, adr, Hi(frm), script)
  IN [s |-> r2, ret |-> r1.ok /\ r2.ok, out |-> <<>>]

\* Set_Frame_Rate with a fault: p_frm[ 0] written to both registers
Set_Frame_Rate_LoTwice(frm, adr, script) ==
  LET r1 == writeReg(Enter(tfStatus), TFL_FPS_LO, adr, Lo(frm), script)
      r2 == writeReg(r1, TFL_FPS_HI, adr, Lo(frm), script)
  IN IF ~r1.ok THEN [s |-> r1, ret |-> FALSE, out |-> <<>>]
     ELSE IF ~r2.ok THEN [s |-> r2, ret |-> FALSE, out |-> <<>>]
     ELSE [s |-> r2, ret |-> TRUE, out |-> <<>>]

Set_Frame_Rate(frm, adr, script) ==
  LET r1 == writeReg(Enter(tfStatus), TFL_FPS_LO, adr, Lo(frm), script)
      r2 == writeReg(r1, TFL_FPS_HI, adr, Hi(frm), script)
  IN IF ~r1.ok THEN [s |-> r1, ret |-> FALSE, out |-> <<>>]
     ELSE IF ~r2.ok THEN [s |-> r2, ret |-> FALSE, out |-> <<>>]
     ELSE [s |-> r2, ret |-> TRUE, out |-> <<>>]

(* ---------------- actions: one per public method ------------------------ *)
\* the method returns: the object fields, the device and the records of the
\* call take the values the method left
Return(op, adr, arg, pre, r) ==
  /\ tfStatus' = r.s.tfStatus
  /\ regReply' = r.s.regReply
  /\ dataArray' = r.s.dataArray
  /\ dev' = r.s.dev
  /\ wire' = r.s.wire
  /\ call' = [op |-> op, addr |-> adr, arg |-> arg, pre |-> pre,
              out |-> r.out, ret |-> r.ret]
  /\ setBefore' = IF /\ op = "Get_Frame_Rate"
                     /\ call.op = "Set_Frame_Rate" /\ call.ret
                     /\ call.addr = adr
                  THEN <<call.arg>> ELSE <<>>

Mem(adr, smp, tick) == DevMem(dev[adr], smp, tick)

\* S: samples the sensor may present, P: contents of the caller's variables
DoGetData(S, P) ==
  \E adr \in Addrs, smp \in S, pre \in P, sc \in BusScripts(6) :
    Return("getData", adr, 0, pre, getData(pre, adr, Mem(adr, smp, 0), sc))

DoGet_Time ==
  \E adr \in Addrs, tick \in Ticks, sc \in BusScripts(2) :
    Return("Get_Time", adr, 0, <<0>>,
           Get_Time(<<0>>, adr, Mem(adr, NoSample, tick), sc))

DoGet_Prod_Code ==
  \E adr \in Addrs, sc \in BusScripts(14) :
    Return("Get_Prod_Code", adr, 0, [i \in 1..14 |-> 0],
           Get_Prod_Code([i \in 1..14 |-> 0], adr, Mem(adr, NoSample, 0), sc))

DoGet_Firmware_Version ==
  \E adr \in Addrs, sc \in BusScripts(3) :
    Return("Get_Firmware_Version", adr, 0, [i \in 1..3 |-> 0],
           Get_Firmware_Version([i \in 1..3 |-> 0], adr, Mem(adr, NoSample, 0), sc))

DoSave_Settings ==
  \E adr \in Addrs, sc \in BusScripts(1) :
    Return("Save_Settings", adr, 0, <<>>, WriteCmd(TFL_SAVE_SETTINGS, adr, 1, sc))

DoSoft_Reset ==
  \E adr \in Addrs, sc \in BusScripts(1) :
    Return("Soft_Reset", adr, 0, <<>>, WriteCmd(TFL_SOFT_RESET, adr, 2, sc))

DoSet_I2C_Addr ==
  \E adr \in Addrs, adrNew \in NewAddrs, sc \in BusScripts(1) :
    Return("Set_I2C_Addr", adr, adrNew, <<>>,
           WriteCmd(TFL_SET_I2C_ADDR, adr, adrNew, sc))

DoSet_Enable ==
  \E adr \in Addrs, sc \in BusScripts(1) :
    Return("Set_Enable", adr, 0, <<>>, WriteCmd(TFL_DISABLE, adr, 1, sc))

DoSet_Disable ==
  \E adr \in Addrs, sc \in BusScripts(1) :
    Return("Set_Disable", adr, 0, <<>>, WriteCmd(TFL_DISABLE, adr, 0, sc))

\* R: frame rates the caller may ask for
DoSet_Frame_Rate(R) ==
  \E adr \in Addrs, frm \in R, sc \in BusScripts(2) :
    Return("Set_Frame_Rate", adr, frm, <<>>, Set_Frame_Rate(frm, adr, sc))

\* P: contents of the caller's variable
DoGet_Frame_Rate(P) ==
  \E adr \in Addrs, pre \in P, sc \in BusScripts(2) :
    Return("Get_Frame_Rate", adr, 0, <<pre>>,
           Get_Frame_Rate(<<pre>>, adr, Mem(adr, NoSample, 0), sc))

DoHard_Reset ==
  \E adr \in Addrs, sc \in BusScripts(1) :
    Return("Hard_Reset", adr, 0, <<>>, WriteCmd(TFL_HARD_RESET, adr, 1, sc))

DoSet_Cont_Mode ==
  \E adr \in Addrs, sc \in BusScripts(1) :
    Return("Set_Cont_Mode", adr, 0, <<>>, WriteCmd(TFL_SET_TRIG_MODE, adr, 0, sc))

DoSet_Trig_Mode ==
  \E adr \in Addrs, sc \in BusScripts(1) :
    Return("Set_Trig_Mode", adr, 0, <<>>, WriteCmd(TFL_SET_TRIG_MODE, adr, 1, sc))

DoSet_Trigger ==
  \E adr \in Addrs, sc \in BusScripts(1) :
    Return("Set_Trigger", adr, 0, <<>>, WriteCmd(TFL_TRIGGER, adr, 1, sc))

(* ---------------- specifications ---------------------------------------- *)
Init ==
  /\ tfStatus = TFL_READY
  /\ regReply = 0
  /\ dataArray = [i \in 1..6 |-> 0]
  /\ dev = [a \in Addrs |-> <<Lo(TFL_DEF_FPS), Hi(TFL_DEF_FPS)>>]
  /\ wire = <<>>
  /\ call = [op |-> "none", addr |-> 0, arg |-> 0, pre |-> <<>>,
             out |-> <<>>, ret |-> TRUE]
  /\ setBefore = <<>>

\* every public method, in any order; the sensor presents one weak and one
\* good sample and the frame rate written is the default one (SpecData and
\* SpecFrame range over the other samples and frame rates)
Next ==
  \/ DoGetData(FewSamples, PreMeasure)
  \/ DoGet_Time
  \/ DoGet_Prod_Code
  \/ DoGet_Firmware_Version
  \/ DoSave_Settings
  \/ DoSoft_Reset
  \/ DoSet_I2C_Addr
  \/ DoSet_Enable
  \/ DoSet_Disable
  \/ DoSet_Frame_Rate(FewFrameRates)
  \/ DoGet_Frame_Rate(PreWord)
  \/ DoHard_Reset
  \/ DoSet_Cont_Mode
  \/ DoSet_Trig_Mode
  \/ DoSet_Trigger

Spec == Init /\ [][Next]_vars

\* getData alone, over every sample
NextData == DoGetData(Samples, PreMeasure)

SpecData == Init /\ [][NextData]_vars

\* the frame-rate pair, over every frame rate
NextFrame ==
  \/ DoSet_Frame_Rate(FrameRates)
  \/ DoGet_Frame_Rate(PreWord)

SpecFrame == Init /\ [][NextFrame]_vars

(* ---------------- reading the bus log ------------------------------------ *)
\* bytes delivered by read(), in order
ReadVals ==
  LET r == SelectSeq(wire, LAMBDA e : e.ev = "read")
  IN [i \in 1..Len(r) |-> r[i].arg]
\* positions of the bus log
Pos == 1..Len(wire)
IsEv(i, e) == i \in Pos /\ wire[i].ev = e
\* a failed endTransmission / an empty receive buffer at position i
EndFailed(i) == IsEv(i, "end") /\ wire[i].arg # 0
NoByteAt(i) == IsEv(i, "peek") /\ wire[i].arg = -1
Faulted == \E i \in Pos : EndFailed(i) \/ NoByteAt(i)
\* number of transactions begun
Begun == Cardinality({i \in Pos : IsEv(i, "begin")})
\* the flux registers as the 16-bit value the device holds
FluxReg == ReadVals[3] + ReadVals[4] * 256
GotSix == call.op = "getData" /\ Len(ReadVals) = 6

(* ---------------- C1 ---------------------------------------------------- *)
\* C1: whenever a call returns, the status slot reflects that call's own
\* outcome: Ready after a success, and after a failure the call's own cause
\* (I2C-WRITE after a failed endTransmission, I2C-READ after an empty receive
\* buffer, otherwise the weak/strong verdict of getData).
C1_StatusReflectsCall ==
  call.op # "none" =>
    IF call.ret THEN tfStatus = TFL_READY
    ELSE IF EndFailed(Len(wire)) THEN tfStatus = TFL_I2CWRITE
    ELSE IF NoByteAt(Len(wire)) THEN tfStatus = TFL_I2CREAD
    ELSE tfStatus \in {TFL_WEAK, TFL_STRONG}

(* ---------------- C2 ---------------------------------------------------- *)
\* C2: when all six reads of getData succeed and the flux registers hold
\* 0xFF, 0xFF, getData returns failure and the status is Signal strong.
C2_StrongOnSaturation ==
  (GotSix /\ ReadVals[3] = 255 /\ ReadVals[4] = 255) =>
    (~call.ret /\ tfStatus = TFL_STRONG)

(* ---------------- C3 ---------------------------------------------------- *)
\* C3: when all six reads of getData succeed and the flux register value f
\* satisfies 100 <= f < 0xFFFF, getData returns success with status Ready.
C3_ReadyFrom100 ==
  (GotSix /\ 100 <= FluxReg /\ FluxReg < 65535) =>
    (call.ret /\ tfStatus = TFL_READY)

(* ---------------- C4 ---------------------------------------------------- *)
\* C4: when all six reads of getData succeed and the flux value f is below
\* 100, getData returns failure with status Signal weak, whatever the
\* distance and temperature registers hold.
C4_WeakBelow100 ==
  (GotSix /\ FluxReg < 100) => (~call.ret /\ tfStatus = TFL_WEAK)

\* getData saw flux 99 next to a negative distance and temperature
C4_Witness ==
  /\ GotSix /\ FluxReg = 99
  /\ call.out = <<-32767, 99, -100>>
  /\ ~call.ret /\ tfStatus = TFL_WEAK

(* ---------------- C5 ---------------------------------------------------- *)
ReadOps == {"getData", "Get_Prod_Code", "Get_Firmware_Version", "Get_Time",
            "Get_Frame_Rate"}
\* a fault on the bus is the last thing the operation did on the bus
FaultIsLast == \A i \in Pos : (EndFailed(i) \/ NoByteAt(i)) => i = Len(wire)

\* C5 (as claimed): in every multi-register read operation, a failing register
\* read makes the operation return failure, nothing is issued on the bus for
\* the later steps, and the status on return is I2C-READ.
C5_AbortWithReadError ==
  (call.op \in ReadOps /\ Faulted) =>
    (~call.ret /\ FaultIsLast /\ tfStatus = TFL_I2CREAD)

\* C5 (amended): in every multi-register read operation, a failing register
\* read makes the operation return failure, nothing is issued on the bus for
\* the later steps (one transaction was begun per read delivered, plus the
\* failing one), and the status on return is I2C-WRITE when endTransmission
\* failed and I2C-READ when no byte was available.
C5_AbortWithCause ==
  (call.op \in ReadOps /\ Faulted) =>
    /\ ~call.ret
    /\ FaultIsLast
    /\ Begun = Len(ReadVals) + 1
    /\ tfStatus = IF EndFailed(Len(wire)) THEN TFL_I2CWRITE ELSE TFL_I2CREAD

\* Get_Prod_Code failed at byte 5 of 14 with no byte available
C5_Witness ==
  /\ call.op = "Get_Prod_Code" /\ ~call.ret
  /\ Len(ReadVals) = 4 /\ Begun = 5 /\ NoByteAt(Len(wire))
  /\ tfStatus = TFL_I2CREAD

(* ---------------- C6 ---------------------------------------------------- *)
\* C6: in Set_Frame_Rate the first transaction writes the frame-rate low
\* register; if its endTransmission fails the operation returns failure with
\* status I2C-WRITE and no further transaction is started; a transaction on
\* the high register exists only after the low one ended with status 0.
C6_NoHighAfterLowFails ==
  call.op = "Set_Frame_Rate" =>
    /\ IsEv(1, "begin") /\ IsEv(2, "write") /\ wire[2].arg = TFL_FPS_LO
    /\ IsEv(4, "end")
    /\ wire[4].arg # 0 =>
         (Len(wire) = 4 /\ ~call.ret /\ tfStatus = TFL_I2CWRITE)
    /\ Len(wire) > 4 =>
         (wire[4].arg = 0 /\ IsEv(5, "begin") /\ IsEv(6, "write")
            /\ wire[6].arg = TFL_FPS_HI)

\* the low-byte write of Set_Frame_Rate(1000) was refused
C6_Witness ==
  /\ call.op = "Set_Frame_Rate" /\ call.arg = 1000
  /\ Len(wire) = 4 /\ wire[3].arg = 232 /\ wire[4].arg # 0
  /\ ~call.ret /\ tfStatus = TFL_I2CWRITE

(* ---------------- C7 ---------------------------------------------------- *)
\* C7: a Get_Frame_Rate that directly follows a successful Set_Frame_Rate(x)
\* on the same device, with every bus step succeeding, returns success and
\* yields x.
C7_FrameRateRoundTrip ==
  (call.op = "Get_Frame_Rate" /\ setBefore # <<>> /\ ~Faulted) =>
    (call.ret /\ call.out = setBefore)

\* 65535 came back over a caller's variable that held something else
C7_Witness ==
  /\ call.op = "Get_Frame_Rate" /\ setBefore = <<65535>>
  /\ call.pre # <<65535>> /\ call.ret /\ call.out = <<65535>>

(* ---------------- C8 ---------------------------------------------------- *)
\* registers addressed by the operation, in order (the first byte written in
\* each transaction)
RegsAddressed ==
  LET b == SelectSeq([i \in Pos |-> IF IsEv(i, "begin") THEN wire[i + 1].arg
                                     ELSE -1],
                     LAMBDA x : x # -1)
  IN b

C9_NoPartialMeasurement ==
  (call.op = "getData" /\ Len(ReadVals) < 6) =>
    /\ ~call.ret
    /\ call.out = call.pre
    /\ tfStatus # TFL_READY
    /\ EndFailed(Len(wire)) => tfStatus = TFL_I2CWRITE
    /\ NoByteAt(Len(wire)) => tfStatus = TFL_I2CREAD
    /\ EndFailed(Len(wire)) \/ NoByteAt(Len(wire))

\* the fourth read of getData found no byte, after three bytes were stored
C9_Witness ==
  /\ call.op = "getData" /\ Len(ReadVals) = 3 /\ NoByteAt(Len(wire))
  /\ dataArray[1] = 52 /\ dataArray[2] = 18
  /\ ~call.ret /\ call.out = call.pre /\ tfStatus = TFL_I2CREAD

(* ---------------- C10 --------------------------------------------------- *)
\* the transaction begun at position i is a readReg transaction: one byte
\* written, then endTransmission
ReadTx(i) == IsEv(i, "begin") /\ IsEv(i + 1, "write") /\ IsEv(i + 2, "end")
\* the transaction begun at position i is a writeReg transaction
WriteTx(i) == /\ IsEv(i, "begin") /\ IsEv(i + 1, "write")
              /\ IsEv(i + 2, "write") /\ IsEv(i + 3, "end")

\* C10: every transaction is begin, write(s), end with nothing else between;
\* a byte is requested only directly after a readReg transaction that ended
\* with status 0, one byte from the same device, and is always requested
\* then; a non-zero end status ends the operation with failure and
\* I2C-WRITE, no byte requested; no available byte ends it with failure and
\* I2C-READ, no read; a read happens only after a byte was seen available;
\* no operation returns with a transaction open.
C10_BusProtocol ==
  /\ \A i \in Pos : IsEv(i, "begin") => (ReadTx(i) \/ WriteTx(i))
  /\ \A i \in Pos : IsEv(i, "write") =>
       (IsEv(i - 1, "begin") \/ (IsEv(i - 1, "write") /\ IsEv(i - 2, "begin")))
  /\ \A i \in Pos : IsEv(i, "end") => (ReadTx(i - 2) \/ WriteTx(i - 3))
  /\ \A i \in Pos : IsEv(i, "request") =>
       /\ ReadTx(i - 3) /\ wire[i - 1].arg = 0
       /\ wire[i].arg = wire[i - 3].arg /\ wire[i].n = 1
       /\ IsEv(i + 1, "peek")
  /\ \A i \in Pos : (ReadTx(i) /\ wire[i + 2].arg = 0) => IsEv(i + 3, "request")
  /\ \A i \in Pos : IsEv(i, "peek") => IsEv(i - 1, "request")
  /\ \A i \in Pos : IsEv(i, "read") =>
       (IsEv(i - 1, "peek") /\ wire[i - 1].arg # -1
          /\ wire[i].arg = wire[i - 1].arg)
  /\ \A i \in Pos : (IsEv(i, "peek") /\ wire[i].arg # -1) => IsEv(i + 1, "read")
  /\ \A i \in Pos : EndFailed(i) =>
       (i = Len(wire) /\ ~call.ret /\ tfStatus = TFL_I2CWRITE)
  /\ \A i \in Pos : NoByteAt(i) =>
       (i = Len(wire) /\ ~call.ret /\ tfStatus = TFL_I2CREAD)
  /\ Len(wire) > 0 => wire[Len(wire)].ev \in {"end", "peek", "read"}

\* Get_Time on the second device: the first readReg ran in full, the second
\* stopped at a refused endTransmission
C10_Witness ==
  /\ call.op = "Get_Time" /\ call.addr = TFL_DEF_ADR + 1
  /\ Len(wire) = 9
  /\ ReadTx(1) /\ IsEv(4, "request") /\ wire[4].arg = TFL_DEF_ADR + 1
  /\ IsEv(6, "read") /\ ReadTx(7) /\ EndFailed(9)
  /\ ~call.ret /\ tfStatus = TFL_I2CWRITE

====
